---- MODULE Spec2Model ----
(***************************************************************************)
(* Model of the tabular extraction engine of the investing-challenge       *)
(* leaderboard: parseCSV (src/app/api/leaderboard/route.ts) and the         *)
(* normalizer, locators, extractors and aggregator of src/lib/leaderboard.ts*)
(*                                                                         *)
(* Strings are sequences of one-character strings, so that trimming,        *)
(* lower-casing, regular-expression replacement and the decimal parse are   *)
(* computed character by character.  Numbers are exact decimals             *)
(* [m |-> mantissa, e |-> number of fraction digits] in canonical form      *)
(* (no trailing zero in the fraction); IEEE-754 rounding is not modelled,   *)
(* and -0 is identified with 0.                                             *)
(***************************************************************************)
EXTENDS Integers, Sequences, FiniteSets, TLC

VARIABLES pc, text, i, cur, row, rows, inQuotes, values, grid,
          raw, num, required, header, initialCapital,
          realizedFromLabel, open, journal, stats

vars == <<pc, text, i, cur, row, rows, inQuotes, values, grid,
          raw, num, required, header, initialCapital,
          realizedFromLabel, open, journal, stats>>

scanVars == <<i, cur, row, rows, inQuotes>>
numVars == <<raw, num>>
headerVars == <<required, header>>
statsVars == <<initialCapital, realizedFromLabel, open, journal, stats>>

(***************************************************************************)
(* Characters and strings                                                  *)
(***************************************************************************)
DQ == "\""
LF == "\n"
CR == "\r"
SP == " "

\* The value of an out-of-range index (text[i + 1] past the end, row[c] of a
\* short row, rr[-1]): never equal to any string.
Undefined == <<"undefined">>

\* JavaScript's null, the normalizer's "absent": the value of a number | null.
Null == [null |-> TRUE]

\* x ?? y for a string | undefined
Coalesce(x, y) == IF x = Undefined THEN y ELSE x

\* x ?? y for a number | null
OrElse(x, y) == IF x = Null THEN y ELSE x

\* s[k] with k counted from 1; Undefined outside the string.
CharAt(s, k) == IF k \in 1..Len(s) THEN s[k] ELSE "undefined"

\* arr[k] of a JavaScript array, k counted from 1 (k = 0 models index -1).
At(arr, k) == IF k \in 1..Len(arr) THEN arr[k] ELSE Undefined

IsSpace(c) == c \in {SP, LF, CR, "\t"}

RECURSIVE TrimStart(_)
TrimStart(s) ==
    IF s # <<>> /\ IsSpace(Head(s)) THEN TrimStart(Tail(s)) ELSE s

RECURSIVE TrimEnd(_)
TrimEnd(s) ==
    IF s # <<>> /\ IsSpace(s[Len(s)]) THEN TrimEnd(SubSeq(s, 1, Len(s) - 1)) ELSE s

\* String.prototype.trim
Trim(s) == TrimEnd(TrimStart(s))

LowerChar(c) ==
    CASE c = "A" -> "a" [] c = "C" -> "c" [] c = "D" -> "d" [] c = "E" -> "e"
      [] c = "G" -> "g" [] c = "I" -> "i" [] c = "L" -> "l" [] c = "O" -> "o"
      [] c = "P" -> "p" [] c = "Q" -> "q" [] c = "R" -> "r" [] c = "S" -> "s"
      [] c = "T" -> "t" [] c = "U" -> "u" [] c = "Z" -> "z" [] OTHER -> c

\* String.prototype.toLowerCase
ToLowerCase(s) == [k \in 1..Len(s) |-> LowerChar(s[k])]

\* String.prototype.includes
Includes(s, sub) ==
    \E k \in 0..(Len(s) - Len(sub)) : SubSeq(s, k + 1, k + Len(sub)) = sub

normalize(s) == ToLowerCase(Trim(Coalesce(s, <<>>)))

(***************************************************************************)
(* parseCSV: the scanner, one loop iteration per step                       *)
(***************************************************************************)
\* The scanner without the CRLF look-ahead: "\r\n" ends two rows.
ScanStepSplitCRLF(t, st) ==
    LET ch == CharAt(t, st.i)
        next == CharAt(t, st.i + 1)
    IN  IF st.inQuotes
        THEN IF ch = DQ /\ next = DQ
             THEN [st EXCEPT !.cur = Append(st.cur, DQ), !.i = st.i + 2]
             ELSE IF ch = DQ
             THEN [st EXCEPT !.inQuotes = FALSE, !.i = st.i + 1]
             ELSE [st EXCEPT !.cur = Append(st.cur, ch), !.i = st.i + 1]
        ELSE IF ch = DQ
        THEN [st EXCEPT !.inQuotes = TRUE, !.i = st.i + 1]
        ELSE IF ch = ","
        THEN [st EXCEPT !.row = Append(st.row, st.cur), !.cur = <<>>, !.i = st.i + 1]
        ELSE IF ch = LF \/ ch = CR
        THEN [st EXCEPT !.rows = Append(st.rows, Append(st.row, st.cur)),
                        !.row = <<>>, !.cur = <<>>, !.i = st.i + 1]
        ELSE [st EXCEPT !.cur = Append(st.cur, ch), !.i = st.i + 1]

\* The scanner without the escaped-quote look-ahead: every '"' inside quotes
\* closes the quoting.
ScanStepNoEscape(t, st) ==
    LET ch == CharAt(t, st.i)
        next == CharAt(t, st.i + 1)
    IN  IF st.inQuotes
        THEN IF ch = DQ
             THEN [st EXCEPT !.inQuotes = FALSE, !.i = st.i + 1]
             ELSE [st EXCEPT !.cur = Append(st.cur, ch), !.i = st.i + 1]
        ELSE IF ch = DQ
        THEN [st EXCEPT !.inQuotes = TRUE, !.i = st.i + 1]
        ELSE IF ch = ","
        THEN [st EXCEPT !.row = Append(st.row, st.cur), !.cur = <<>>, !.i = st.i + 1]
        ELSE IF ch = LF \/ ch = CR
        THEN [st EXCEPT !.rows = Append(st.rows, Append(st.row, st.cur)),
                        !.row = <<>>, !.cur = <<>>,
                        !.i = IF ch = CR /\ next = LF THEN st.i + 2 ELSE st.i + 1]
        ELSE [st EXCEPT !.cur = Append(st.cur, ch), !.i = st.i + 1]

\* One iteration of the for loop over the state st = [i, cur, row, rows, inQuotes].
ScanStep(t, st) ==
    LET ch == CharAt(t, st.i)
        next == CharAt(t, st.i + 1)
    IN  IF st.inQuotes
        THEN IF ch = DQ /\ next = DQ
             THEN [st EXCEPT !.cur = Append(st.cur, DQ), !.i = st.i + 2]
             ELSE IF ch = DQ
             THEN [st EXCEPT !.inQuotes = FALSE, !.i = st.i + 1]
             ELSE [st EXCEPT !.cur = Append(st.cur, ch), !.i = st.i + 1]
        ELSE IF ch = DQ
        THEN [st EXCEPT !.inQuotes = TRUE, !.i = st.i + 1]
        ELSE IF ch = ","
        THEN [st EXCEPT !.row = Append(st.row, st.cur), !.cur = <<>>, !.i = st.i + 1]
        ELSE IF ch = LF \/ ch = CR
        THEN [st EXCEPT !.rows = Append(st.rows, Append(st.row, st.cur)),
                        !.row = <<>>, !.cur = <<>>,
                        !.i = IF ch = CR /\ next = LF THEN st.i + 2 ELSE st.i + 1]
        ELSE [st EXCEPT !.cur = Append(st.cur, ch), !.i = st.i + 1]

\* A row every cell of which is blank after trim ([].every(...) is true).
RowIsEmpty(r) == \A k \in 1..Len(r) : Trim(Coalesce(r[k], <<>>)) = <<>>

RECURSIVE TrimTrailingEmptyRows(_)
TrimTrailingEmptyRows(rs) ==
    IF rs # <<>> /\ RowIsEmpty(rs[Len(rs)])
    THEN TrimTrailingEmptyRows(SubSeq(rs, 1, Len(rs) - 1))
    ELSE rs

\* After the loop: push the last cell and row, trim trailing empty rows.
ScanFinish(st) ==
    TrimTrailingEmptyRows(Append(st.rows, Append(st.row, st.cur)))

ScanInit == [i |-> 1, cur |-> <<>>, row |-> <<>>, rows |-> <<>>, inQuotes |-> FALSE]

\* At most n iterations of the loop from state st; the iterations are split in
\* halves so that the evaluation nests only logarithmically deep in n.
RECURSIVE ScanSteps(_, _, _)
ScanSteps(t, st, n) ==
    IF n = 0 \/ st.i > Len(t) THEN st
    ELSE IF n = 1 THEN ScanStep(t, st)
    ELSE LET half == ScanSteps(t, st, n \div 2)
         IN  ScanSteps(t, half, n - (n \div 2))

\* The whole loop: every iteration advances i, so Len(t) iterations suffice.
ScanAll(t, st) == ScanSteps(t, st, Len(t))

parseCSV(t) == ScanFinish(ScanAll(t, ScanInit))

(***************************************************************************)
(* Numbers: exact decimals, NaN and the infinities                          *)
(***************************************************************************)
NaN == [nan |-> TRUE]
Infinity == [inf |-> 1]
NegInfinity == [inf |-> -1]

\* Number.isFinite
IsFinite(x) == DOMAIN x = {"m", "e"}

RECURSIVE Pow10(_)
Pow10(n) == IF n <= 0 THEN 1 ELSE 10 * Pow10(n - 1)

\* Canonical form: no trailing zero among the fraction digits.
RECURSIVE Canon(_)
Canon(x) ==
    IF x.e > 0 /\ x.m % 10 = 0
    THEN Canon([m |-> x.m \div 10, e |-> x.e - 1])
    ELSE x

Dec(m, e) == Canon([m |-> m, e |-> e])
IntNum(n) == [m |-> n, e |-> 0]
Zero == IntNum(0)

MaxE(x, y) == IF x.e >= y.e THEN x.e ELSE y.e
Scaled(x, e) == x.m * Pow10(e - x.e)

Add(x, y) == Dec(Scaled(x, MaxE(x, y)) + Scaled(y, MaxE(x, y)), MaxE(x, y))
Neg(x) == [m |-> 0 - x.m, e |-> x.e]
Sub(x, y) == Add(x, Neg(y))
Mul(x, y) == Dec(x.m * y.m, x.e + y.e)
\* x > 0 for a finite x
IsPositive(x) == x.m > 0

Digits == {"0", "1", "2", "3", "4", "5", "6", "7", "8", "9"}

DigitVal(c) ==
    CASE c = "0" -> 0 [] c = "1" -> 1 [] c = "2" -> 2 [] c = "3" -> 3
      [] c = "4" -> 4 [] c = "5" -> 5 [] c = "6" -> 6 [] c = "7" -> 7
      [] c = "8" -> 8 [] c = "9" -> 9

RECURSIVE DigitsVal(_)
DigitsVal(d) ==
    IF d = <<>> THEN 0
    ELSE 10 * DigitsVal(SubSeq(d, 1, Len(d) - 1)) + DigitVal(d[Len(d)])

\* Index of the first occurrence of c in s, 0 when there is none.
RECURSIVE IndexOfFrom(_, _, _)
IndexOfFrom(s, c, k) ==
    IF k > Len(s) THEN 0 ELSE IF s[k] = c THEN k ELSE IndexOfFrom(s, c, k + 1)

\* An unsigned StrDecimalLiteral without exponent: digits, digits. , digits.digits
\* or .digits -- at least one digit, at most one point.
IsUnsignedDecimal(b) ==
    /\ \A k \in 1..Len(b) : b[k] \in Digits \cup {"."}
    /\ \E k \in 1..Len(b) : b[k] \in Digits
    /\ Cardinality({k \in 1..Len(b) : b[k] = "."}) <= 1

UnsignedValue(b) ==
    LET p == IndexOfFrom(b, ".", 1)
        intPart == IF p = 0 THEN b ELSE SubSeq(b, 1, p - 1)
        fracPart == IF p = 0 THEN <<>> ELSE SubSeq(b, p + 1, Len(b))
    IN  Dec(DigitsVal(intPart \o fracPart), Len(fracPart))

\* Number(string): white space is trimmed, the empty string is 0, a signed
\* decimal literal is its value, anything else is NaN.  (Exponents, radix
\* prefixes and "Infinity" do not occur in the texts of this model.)
ToNumber(s) ==
    LET t == Trim(s)
        signed == t # <<>> /\ Head(t) \in {"+", "-"}
        body == IF signed THEN Tail(t) ELSE t
    IN  IF t = <<>> THEN Zero
        ELSE IF ~IsUnsignedDecimal(body) THEN NaN
        ELSE IF signed /\ Head(t) = "-" THEN Neg(UnsignedValue(body))
        ELSE UnsignedValue(body)

(***************************************************************************)
(* parseNumber                                                             *)
(***************************************************************************)
\* /^\(.*\)$/.test(s): "." matches no line terminator.
IsAccountingNegative(s) ==
    /\ Len(s) >= 2
    /\ s[1] = "("
    /\ s[Len(s)] = ")"
    /\ \A k \in 2..(Len(s) - 1) : s[k] \notin {LF, CR}

\* s.replace(/[,$]/g, "")
StripCommaDollar(s) == SelectSeq(s, LAMBDA c : c \notin {",", "$"})

\* s.replace(/^c/, "")
StripLeading(s, c) == IF s # <<>> /\ Head(s) = c THEN Tail(s) ELSE s

\* s.replace(/c$/, "")
StripTrailing(s, c) ==
    IF s # <<>> /\ s[Len(s)] = c THEN SubSeq(s, 1, Len(s) - 1) ELSE s

\* The order of the claimed rules: the trailing '%' before the parentheses.
CleanedPercentFirst(s) ==
    Trim(StripTrailing(StripLeading(StripTrailing(StripCommaDollar(s), "%"), "("), ")"))

\* The replace chain of lines 38-43.
Cleaned(s) ==
    Trim(StripTrailing(StripTrailing(StripLeading(StripCommaDollar(s), "("), ")"), "%"))

\* Number(cleaned), line 45.
NumberOfCleaned(c) == ToNumber(c)

\* Every caller passes a grid cell: a string, or undefined for a missing cell
\* (the typeof raw === "number" branch of line 31 is never entered).
parseNumber(r) ==
    IF r = Undefined THEN Null
    ELSE LET s == Trim(r)
             neg == IsAccountingNegative(s)
             n == NumberOfCleaned(Cleaned(s))
         IN  IF s = <<>> THEN Null
             ELSE IF ~IsFinite(n) THEN Null
             ELSE IF neg THEN Neg(n) ELSE n

(***************************************************************************)
(* String literals of src/lib/leaderboard.ts                                *)
(***************************************************************************)
StrRealizedPL ==
    <<"R", "e", "a", "l", "i", "z", "e", "d", " ", "P", "/", "L", ":">>
StrQuantity ==
    <<"q", "u", "a", "n", "t", "i", "t", "y">>
StrOpenPrice ==
    <<"o", "p", "e", "n", " ", "p", "r", "i", "c", "e">>
StrCurrentPrice ==
    <<"c", "u", "r", "r", "e", "n", "t", " ", "p", "r", "i", "c", "e">>
StrUnrealizedGain ==
    <<"u", "n", "r", "e", "a", "l", "i", "z", "e", "d", " ", "g", "a", "i", "n">>
StrAction ==
    <<"a", "c", "t", "i", "o", "n">>
StrDateTime ==
    <<"d", "a", "t", "e", " ", "&", " ", "t", "i", "m", "e">>
StrTotalReceived ==
    <<"t", "o", "t", "a", "l", " ", "$", " ", "r", "e", "c", "e", "i", "v", "e", "d">>
StrStatus ==
    <<"s", "t", "a", "t", "u", "s">>
StrTotalPaid ==
    <<"t", "o", "t", "a", "l", " ", "$", " ", "p", "a", "i", "d">>
StrDate ==
    <<"d", "a", "t", "e">>
StrTime ==
    <<"t", "i", "m", "e">>
StrZero ==
    <<"0">>

(***************************************************************************)
(* findCellAdjacentToLabel                                                  *)
(***************************************************************************)
\* The nested for loops from cell (r, c) on; rows and columns count from 1.
RECURSIVE LabelScan(_, _, _, _)
LabelScan(g, target, r, c) ==
    IF r > Len(g) THEN Null
    ELSE IF c > Len(g[r]) THEN LabelScan(g, target, r + 1, 1)
    ELSE IF normalize(g[r][c]) = target
    THEN OrElse(parseNumber(At(g[r], c + 1)), Null)
    ELSE LabelScan(g, target, r, c + 1)

findCellAdjacentToLabel(g, label) == LabelScan(g, normalize(label), 1, 1)

(***************************************************************************)
(* findHeaderRow                                                            *)
(***************************************************************************)
\* Array.prototype.indexOf counted from 1: 0 stands for -1.
RECURSIVE IndexOf(_, _, _)
IndexOf(arr, x, k) ==
    IF k > Len(arr) THEN 0 ELSE IF arr[k] = x THEN k ELSE IndexOf(arr, x, k + 1)

\* x.includes("date") && x.includes("time")
IsDateTime(x) == Includes(x, StrDate) /\ Includes(x, StrTime)

\* row.findIndex(x => x.includes("date") && x.includes("time")), 0 for -1.
RECURSIVE FindDateTimeIndex(_, _)
FindDateTimeIndex(arr, k) ==
    IF k > Len(arr) THEN 0
    ELSE IF IsDateTime(arr[k]) THEN k
    ELSE FindDateTimeIndex(arr, k + 1)

NormalizeAll(arr) == [k \in 1..Len(arr) |-> normalize(arr[k])]

NoColumns == [h \in {} |-> 0]

\* colIndexByHeader[h] = idx
SetColumn(cols, h, idx) == (h :> idx) @@ cols

\* Object.keys(colIndexByHeader).length === required.length, line 83.
AllResolved(cols, req) == Cardinality(DOMAIN cols) = Len(req)

\* The loop over the required headers (lines 68-82) from header k on; a
\* header that resolves to no column breaks out of the loop.
RECURSIVE ResolveHeaders(_, _, _, _)
ResolveHeaders(nrow, req, k, cols) ==
    IF k > Len(req) THEN cols
    ELSE LET h == req[k]
             idx == IndexOf(nrow, h, 1)
             altIdx == FindDateTimeIndex(nrow, 1)
         IN  IF idx = 0
             THEN IF IsDateTime(h) /\ altIdx # 0
                  THEN ResolveHeaders(nrow, req, k + 1, SetColumn(cols, h, altIdx))
                  ELSE cols
             ELSE ResolveHeaders(nrow, req, k + 1, SetColumn(cols, h, idx))

RECURSIVE HeaderScan(_, _, _)
HeaderScan(g, req, r) ==
    IF r > Len(g) THEN Null
    ELSE LET cols == ResolveHeaders(NormalizeAll(g[r]), req, 1, NoColumns)
         IN  IF AllResolved(cols, req)
             THEN [rowIndex |-> r, colIndexByHeader |-> cols]
             ELSE HeaderScan(g, req, r + 1)

findHeaderRow(g, requiredHeaders) == HeaderScan(g, NormalizeAll(requiredHeaders), 1)

(***************************************************************************)
(* parseOpenPositions                                                       *)
(***************************************************************************)
OpenPositionsHeaders == <<StrQuantity, StrOpenPrice, StrCurrentPrice, StrUnrealizedGain>>

NoPositions == [positions |-> <<>>, unrealizedTotal |-> Zero]

\* The computed gain preferred over the explicit cell.
UnrealOfComputedFirst(qty, o, cp, u) ==
    IF qty # Zero /\ o # Null /\ cp # Null THEN Mul(qty, Sub(cp, o))
    ELSE IF u # Null THEN u
    ELSE Zero

\* u ?? (qty && o !== null && cp !== null ? qty * (cp - o) : 0), line 119.
UnrealOf(qty, o, cp, u) ==
    IF u # Null THEN u
    ELSE IF qty # Zero /\ o # Null /\ cp # Null THEN Mul(qty, Sub(cp, o))
    ELSE Zero

\* r > start + 1: only two leading all-absent rows are skipped.
BlankRowStopsEarly(r, start) == r > start + 1

\* r > start + 2, line 114: whether the all-absent row r ends the table.
BlankRowStops(r, start) == r > start + 2

\* The for loop of lines 104-127 from row r on.
RECURSIVE OpenScan(_, _, _, _, _)
OpenScan(g, cols, start, r, acc) ==
    IF r > Len(g) THEN acc
    ELSE LET q == parseNumber(At(g[r], cols[StrQuantity]))
             o == parseNumber(At(g[r], cols[StrOpenPrice]))
             cp == parseNumber(At(g[r], cols[StrCurrentPrice]))
             u == parseNumber(At(g[r], cols[StrUnrealizedGain]))
             qty == OrElse(q, Zero)
             unreal == UnrealOf(qty, o, cp, u)
         IN  IF q = Null /\ o = Null /\ cp = Null /\ u = Null
             THEN IF BlankRowStops(r, start) THEN acc
                  ELSE OpenScan(g, cols, start, r + 1, acc)
             ELSE OpenScan(g, cols, start, r + 1,
                    [positions |-> Append(acc.positions,
                                     [quantity |-> qty, openPrice |-> o,
                                      currentPrice |-> cp, unrealizedGain |-> unreal]),
                     unrealizedTotal |-> Add(acc.unrealizedTotal, unreal)])

parseOpenPositions(g) ==
    LET hdr == findHeaderRow(g, OpenPositionsHeaders)
    IN  IF hdr = Null THEN NoPositions
        ELSE OpenScan(g, hdr.colIndexByHeader, hdr.rowIndex + 1, hdr.rowIndex + 1, NoPositions)

(***************************************************************************)
(* parseJournalTotals                                                       *)
(***************************************************************************)
JournalHeaders ==
    <<StrAction, StrDateTime, StrTotalReceived, StrStatus, StrAction, StrDateTime, StrTotalPaid>>

NoJournal == [creditsTotal |-> Zero, debitsTotal |-> Zero, trades |-> 0, lastActivity |-> Undefined]

EarlyStopAfter == 20
TailWindow == 10

\* Math.max(...dateCols) over the columns containing "date" and "time"; 0 for -1.
DateCol(nrow) ==
    LET dateCols == {k \in 1..Len(nrow) : IsDateTime(nrow[k])}
    IN  IF dateCols = {} THEN 0 ELSE CHOOSE k \in dateCols : \A j \in dateCols : j <= k

\* rr.some(cell => normalize(cell) !== "" && normalize(cell) !== "0")
AnyAction(rr) ==
    \E k \in 1..Len(rr) : normalize(rr[k]) # <<>> /\ normalize(rr[k]) # StrZero

\* grid.slice(r, r + 10).every(x => x.every(y => (y ?? "").trim() === ""))
TailIsEmpty(g, r) ==
    \A k \in r..(r + TailWindow - 1) : k <= Len(g) => RowIsEmpty(g[k])

\* The for loop of lines 157-181 from row r on.
RECURSIVE JournalScan(_, _, _, _, _, _, _)
JournalScan(g, receivedCol, paidCol, dateCol, start, r, acc) ==
    IF r > Len(g) THEN acc
    ELSE LET rr == g[r]
             rec == IF receivedCol >= 1 THEN parseNumber(At(rr, receivedCol)) ELSE Null
             paid == IF paidCol >= 1 THEN parseNumber(At(rr, paidCol)) ELSE Null
             dt == Trim(Coalesce(At(rr, dateCol), <<>>))
             nxt == [creditsTotal |-> IF rec # Null THEN Add(acc.creditsTotal, rec)
                                      ELSE acc.creditsTotal,
                     debitsTotal |-> IF paid # Null THEN Add(acc.debitsTotal, paid)
                                     ELSE acc.debitsTotal,
                     trades |-> IF AnyAction(rr) /\ (rec # Null \/ paid # Null)
                                THEN acc.trades + 1 ELSE acc.trades,
                     lastActivity |-> IF dateCol >= 1 /\ dt # <<>> THEN dt
                                      ELSE acc.lastActivity]
         IN  IF rec = Null /\ paid = Null /\ r > start + EarlyStopAfter /\ TailIsEmpty(g, r)
             THEN nxt
             ELSE JournalScan(g, receivedCol, paidCol, dateCol, start, r + 1, nxt)

\* The inner loop of the fallback (lines 192-203) from row k on.
RECURSIVE FallbackSum(_, _, _, _, _)
FallbackSum(g, receivedCol, paidCol, k, acc) ==
    IF k > Len(g) THEN acc
    ELSE LET rr == g[k]
             n1 == IF receivedCol # 0 THEN parseNumber(At(rr, receivedCol)) ELSE Null
             n2 == IF paidCol # 0 THEN parseNumber(At(rr, paidCol)) ELSE Null
             shown == Coalesce(At(rr, receivedCol), Coalesce(At(rr, paidCol), <<>>))
         IN  FallbackSum(g, receivedCol, paidCol, k + 1,
               [acc EXCEPT !.creditsTotal = IF n1 # Null THEN Add(@, n1) ELSE @,
                           !.debitsTotal = IF n2 # Null THEN Add(@, n2) ELSE @,
                           !.trades = IF Trim(shown) # <<>> THEN @ + 1 ELSE @])

\* The outer loop of the fallback (lines 186-206) from row r on: the first row
\* holding either header decides both columns.
RECURSIVE FallbackScan(_, _)
FallbackScan(g, r) ==
    IF r > Len(g) THEN NoJournal
    ELSE LET nrow == NormalizeAll(g[r])
             receivedCol == IndexOf(nrow, StrTotalReceived, 1)
             paidCol == IndexOf(nrow, StrTotalPaid, 1)
         IN  IF receivedCol # 0 \/ paidCol # 0
             THEN FallbackSum(g, receivedCol, paidCol, r + 1, NoJournal)
             ELSE FallbackScan(g, r + 1)

parseJournalTotals(g) ==
    LET hdr == findHeaderRow(g, JournalHeaders)
    IN  IF hdr # Null
        THEN LET nrow == NormalizeAll(g[hdr.rowIndex])
             IN  JournalScan(g, IndexOf(nrow, StrTotalReceived, 1),
                             IndexOf(nrow, StrTotalPaid, 1), DateCol(nrow),
                             hdr.rowIndex + 1, hdr.rowIndex + 1, NoJournal)
        ELSE FallbackScan(g, 1)

(***************************************************************************)
(* computePlayerStatsFromSheetCSV                                           *)
(***************************************************************************)
DefaultInitialCapital == IntNum(10000)

\* The supplied capital checked for finiteness only.
InitialOfFiniteOnly(supplied) ==
    IF IsFinite(supplied) THEN supplied ELSE DefaultInitialCapital

\* Number.isFinite(args.initialCapital) && args.initialCapital > 0
\*   ? args.initialCapital : 10000, line 230.
InitialOf(supplied) ==
    IF IsFinite(supplied) /\ IsPositive(supplied) THEN supplied ELSE DefaultInitialCapital

\* The label value tested for truthiness: a labeled 0 falls back to the journal.
RealizedOfTruthy(fromLabel, j) ==
    IF fromLabel # Null /\ fromLabel # Zero THEN fromLabel
    ELSE Sub(j.creditsTotal, j.debitsTotal)

\* Lines 224-225.
RealizedOf(fromLabel, j) ==
    IF fromLabel # Null THEN fromLabel ELSE Sub(j.creditsTotal, j.debitsTotal)

\* x / y as an exact fraction (y is never 0 here).
Quotient(x, y) == [num |-> x, den |-> y]

\* Lines 227-244; name is carried through unchanged and left out.
StatsOf(supplied, fromLabel, op, j) ==
    LET realizedPL == RealizedOf(fromLabel, j)
        unrealizedPL == op.unrealizedTotal
        totalPL == Add(realizedPL, unrealizedPL)
        initial == InitialOf(supplied)
    IN  [realizedPL |-> realizedPL,
         unrealizedPL |-> unrealizedPL,
         totalPL |-> totalPL,
         returnPct |-> Quotient(totalPL, initial),
         equity |-> Add(initial, totalPL),
         trades |-> j.trades,
         lastActivity |-> j.lastActivity,
         details |-> [creditsTotal |-> j.creditsTotal, debitsTotal |-> j.debitsTotal]]

computePlayerStatsFromSheetCSV(csvText, supplied) ==
    LET g == parseCSV(csvText)
    IN  StatsOf(supplied, findCellAdjacentToLabel(g, StrRealizedPL),
                parseOpenPositions(g), parseJournalTotals(g))

(***************************************************************************)
(* Inputs                                                                  *)
(***************************************************************************)
\* Every sequence over S of length at most n.
SeqsUpTo(S, n) == UNION {[1..k -> S] : k \in 0..n}

Last(s) == s[Len(s)]

\* Values of the variables a specification does not use.
Idle == <<>>

(***************************************************************************)
(* SpecCSV: parseCSV stepped one loop iteration at a time                   *)
(***************************************************************************)
MaxText == 5
MaxPlainRows == 2
MaxPlainCols == 2

CsvChars == {"a", SP, ",", DQ, LF, CR}
PlainCells == {<<>>, <<"a">>, <<SP>>}
Terminators == {<<LF>>, <<CR>>, <<CR, LF>>}

\* arr.join(sep) for an array of strings
RECURSIVE Join(_, _)
Join(arr, sep) ==
    IF arr = <<>> THEN <<>>
    ELSE IF Len(arr) = 1 THEN arr[1]
    ELSE arr[1] \o sep \o Join(Tail(arr), sep)

\* Each row's cells joined with ',' and the rows with the terminator.
JoinGrid(g, term) == Join([r \in 1..Len(g) |-> Join(g[r], <<",">>)], term)

CsvInit ==
    /\ pc = "scan"
    /\ \/ /\ values = Idle
          /\ text \in SeqsUpTo(CsvChars, MaxText)
       \/ /\ values \in SeqsUpTo(SeqsUpTo(PlainCells, MaxPlainCols), MaxPlainRows)
          /\ \E term \in Terminators : text = JoinGrid(values, term)
    /\ required = Idle
    /\ i = ScanInit.i
    /\ cur = ScanInit.cur
    /\ row = ScanInit.row
    /\ rows = ScanInit.rows
    /\ inQuotes = ScanInit.inQuotes
    /\ grid = Idle
    /\ raw = Idle /\ num = Null /\ header = Null
    /\ initialCapital = Zero /\ realizedFromLabel = Null
    /\ open = Idle /\ journal = Idle /\ stats = Idle

ScanState == [i |-> i, cur |-> cur, row |-> row, rows |-> rows, inQuotes |-> inQuotes]

\* One iteration of the loop of lines 117-155.
Scan ==
    /\ pc = "scan"
    /\ i <= Len(text)
    /\ LET st == ScanStep(text, ScanState)
       IN  /\ i' = st.i
           /\ cur' = st.cur
           /\ row' = st.row
           /\ rows' = st.rows
           /\ inQuotes' = st.inQuotes
    /\ UNCHANGED <<pc, text, values, grid, numVars, headerVars, statsVars>>

\* Lines 157-165: the last cell and row are pushed, trailing empty rows popped.
Finish ==
    /\ pc = "scan"
    /\ i > Len(text)
    /\ row' = Append(row, cur)
    /\ rows' = ScanFinish(ScanState)
    /\ grid' = ScanFinish(ScanState)
    /\ pc' = "done"
    /\ UNCHANGED <<text, i, cur, inQuotes, values, numVars, headerVars, statsVars>>

CsvNext == Scan \/ Finish

SpecCSV == CsvInit /\ [][CsvNext]_vars

(***************************************************************************)
(* SpecNum: parseNumber applied to one cell                                 *)
(***************************************************************************)
MaxCell == 4

NumChars == {"0", "5", "-", ".", ",", "$", "%", "(", ")", SP, "a"}

ExampleCells ==
    { <<"$", "1", ",", "2", "3", "4", ".", "5", "0">>,
      <<"(", "5", "0", "0", ")">>,
      <<"(", "$", "1", ",", "2", "3", "4", ".", "5", "6", ")">>,
      <<"1", "2", "%">>,
      <<"a", "b", "c">> }

NumInit ==
    /\ pc = "call"
    /\ raw \in SeqsUpTo(NumChars, MaxCell) \cup ExampleCells
    /\ num = Null
    /\ text = Idle /\ values = Idle /\ grid = Idle
    /\ i = ScanInit.i /\ cur = Idle /\ row = Idle /\ rows = Idle /\ inQuotes = FALSE
    /\ required = Idle /\ header = Null
    /\ initialCapital = Zero /\ realizedFromLabel = Null
    /\ open = Idle /\ journal = Idle /\ stats = Idle

ParseNumberCall ==
    /\ pc = "call"
    /\ num' = parseNumber(raw)
    /\ pc' = "done"
    /\ UNCHANGED <<text, scanVars, values, grid, raw, headerVars, statsVars>>

NumNext == ParseNumberCall

SpecNum == NumInit /\ [][NumNext]_vars

(***************************************************************************)
(* Claims about parseCSV (SpecCSV)                                          *)
(***************************************************************************)
\* The text is the grid `values` joined with ',' and some line terminator.
IsJoined == \E term \in Terminators : text = JoinGrid(values, term)

\* A fully-blank row: every character of every cell is white space.
BlankRow(r) == \A k \in 1..Len(r) : \A j \in 1..Len(r[k]) : IsSpace(r[k][j])

\* The number of rows left when the trailing fully-blank rows are removed.
KeptRows(g) ==
    CHOOSE n \in 0..Len(g) :
        /\ n = 0 \/ ~BlankRow(g[n])
        /\ \A k \in (n + 1)..Len(g) : BlankRow(g[k])

WithoutTrailingBlankRows(g) == SubSeq(g, 1, KeptRows(g))

\* C3 as stated: joining a grid of plain cells and parsing the text returns
\* the grid with only its trailing fully-blank rows removed.
C3_RoundTripAnyRow ==
    (pc = "done" /\ IsJoined) => grid = WithoutTrailingBlankRows(values)

\* C3 (amended): joining a grid of plain cells and parsing the text returns
\* the grid with its trailing fully-blank rows removed and every remaining
\* row of no cells replaced by a row of one empty cell; no other row is
\* dropped, added or changed.
C3_RoundTrip ==
    (pc = "done" /\ IsJoined) =>
        grid = [k \in 1..KeptRows(values) |->
                    IF values[k] = <<>> THEN << <<>> >> ELSE values[k]]

\* C3 witness: a grid of two rows of unequal lengths, the second one blank,
\* has been joined and parsed, and only the first row is returned.
C3_Witness ==
    /\ pc = "done"
    /\ IsJoined
    /\ Len(values) = 2
    /\ values[1] = << <<"a">>, <<>> >>
    /\ values[2] = << <<SP>> >>
    /\ grid = << values[1] >>

QuoteCount(s) == Cardinality({k \in 1..Len(s) : s[k] = DQ})

\* Every maximal run of '"' in s has even length: s holds doubled quotes only.
DoubledQuotesOnly(s) ==
    \A a \in 1..Len(s) : \A b \in a..Len(s) :
        ( /\ \A k \in a..b : s[k] = DQ
          /\ a = 1 \/ s[a - 1] # DQ
          /\ b = Len(s) \/ s[b + 1] # DQ ) => (b - a + 1) % 2 = 0

\* Position q holds a '"' that follows an even number of quotes and is
\* followed by doubled quotes only.
OpensForGood(t, q) ==
    /\ t[q] = DQ
    /\ QuoteCount(SubSeq(t, 1, q - 1)) % 2 = 0
    /\ DoubledQuotesOnly(SubSeq(t, q + 1, Len(t)))

\* The text has an opening quote that is never closed.
Unterminated(t) == \E q \in 1..Len(t) : OpensForGood(t, q)

\* The opening position of the unterminated quote.
OpeningQuote(t) ==
    CHOOSE q \in 1..Len(t) :
        OpensForGood(t, q) /\ \A p \in 1..(q - 1) : ~OpensForGood(t, p)

\* s with every doubled '""' replaced by one '"'.
RECURSIVE Undoubled(_)
Undoubled(s) ==
    IF s = <<>> THEN <<>>
    ELSE IF Len(s) >= 2 /\ s[1] = DQ /\ s[2] = DQ
    THEN <<DQ>> \o Undoubled(SubSeq(s, 3, Len(s)))
    ELSE <<s[1]>> \o Undoubled(Tail(s))

\* What follows the unterminated opening quote, doubled quotes undoubled.
Remainder(t) == Undoubled(SubSeq(t, OpeningQuote(t) + 1, Len(t)))

EndsWith(s, suffix) ==
    Len(suffix) <= Len(s) /\ SubSeq(s, Len(s) - Len(suffix) + 1, Len(s)) = suffix

\* A step of the scanner inside quotes ends no cell and no row, appends every
\* character but a closing quote to the current cell, and takes a doubled
\* quote as one literal quote that leaves the quoting open.
InQuotesStep ==
    (pc = "scan" /\ inQuotes /\ i <= Len(text)) =>
        /\ row' = row
        /\ rows' = rows
        /\ IF text[i] = DQ /\ CharAt(text, i + 1) = DQ
           THEN cur' = Append(cur, DQ) /\ inQuotes' /\ i' = i + 2
           ELSE IF text[i] = DQ
           THEN cur' = cur /\ ~inQuotes' /\ i' = i + 1
           ELSE cur' = Append(cur, text[i]) /\ inQuotes' /\ i' = i + 1

UnterminatedResult ==
    pc = "done" =>
        /\ inQuotes <=> Unterminated(text)
        /\ Unterminated(text) =>
              /\ EndsWith(Last(row), Remainder(text))
              /\ IF RowIsEmpty(row)
                 THEN Len(grid) <= Len(rows)
                 ELSE grid # <<>> /\ Last(grid) = row

IsWrapped(s) == Len(s) >= 2 /\ Head(s) = "(" /\ Last(s) = ")"

\* The rules as C5 states them, in its order.
StatedRules(r) ==
    LET s == Trim(r)
        unwrapped == IF IsWrapped(s) THEN SubSeq(s, 2, Len(s) - 1) ELSE s
        noSymbols == SelectSeq(unwrapped, LAMBDA c : c # "," /\ c # "$")
        noPercent == StripTrailing(noSymbols, "%")
        rest == StripTrailing(StripLeading(noPercent, "("), ")")
        n == ToNumber(rest)
    IN  IF s = <<>> THEN Null
        ELSE IF ~IsFinite(n) THEN Null
        ELSE IF IsWrapped(s) THEN Mul(n, IntNum(-1)) ELSE n

\* The rules in the order that holds: the wrapper is detected but not
\* stripped on its own; then every ',' and '$', one leading '(', one trailing
\* ')' and last one trailing '%' are stripped, by position in the string.
OrderedRules(r) ==
    LET s == Trim(r)
        t == SelectSeq(s, LAMBDA c : c # "," /\ c # "$")
        lo == IF Len(t) >= 1 /\ t[1] = "(" THEN 2 ELSE 1
        hi1 == IF Len(t) >= lo /\ t[Len(t)] = ")" THEN Len(t) - 1 ELSE Len(t)
        hi2 == IF hi1 >= lo /\ t[hi1] = "%" THEN hi1 - 1 ELSE hi1
        n == ToNumber(SubSeq(t, lo, hi2))
    IN  IF s = <<>> THEN Null
        ELSE IF ~IsFinite(n) THEN Null
        ELSE IF IsWrapped(s) THEN Mul(n, IntNum(-1)) ELSE n

\* C5 as stated: parseNumber agrees with the stated rules on every cell; the
\* cells without a digit are left to C6.
C5_StatedOrder ==
    (pc = "done" /\ \E k \in 1..Len(raw) : raw[k] \in Digits) => num = StatedRules(raw)

\* C5 (amended): parseNumber returns the result of: trim; empty gives absent;
\* remember a negative sign if the whole trimmed string has the form '(...)';
\* strip every ',' and '$', then one leading '(', then one trailing ')', then
\* one trailing '%'; decimal-parse the rest as Number does (absent if not
\* finite); negate the value if the wrapper was detected, even when the inner
\* text carried its own '-'.  '$1,234.50' gives 1234.5, '(500)' gives -500
\* and '12%' gives 12.
C5_ParseNumberRules ==
    pc = "done" =>
        /\ num = OrderedRules(raw)
        /\ raw = <<"$", "1", ",", "2", "3", "4", ".", "5", "0">> => num = Dec(12345, 1)
        /\ raw = <<"(", "5", "0", "0", ")">> => num = IntNum(-500)
        /\ raw = <<"1", "2", "%">> => num = IntNum(12)

\* C5 witness: a wrapped cell whose inner text carries its own '-' has been
\* parsed, and the wrapper negated the negative value.
C5_Witness ==
    pc = "done" /\ raw = <<"(", "-", "5", ")">> /\ num = IntNum(5)

\* A decimal number: an optional sign, digits with at most one point.
IsDecimalText(s) ==
    LET t == Trim(s)
        body == IF t # <<>> /\ Head(t) \in {"+", "-"} THEN Tail(t) ELSE t
    IN  IsUnsignedDecimal(body)

\* C6: a cell that is not a decimal number once its decoration is stripped,
\* in particular a cell without any digit, gives absent and never a number.
C6_MalformedIsAbsent ==
    pc = "done" =>
        /\ ~IsDecimalText(Cleaned(Trim(raw))) => num = Null
        /\ (\A k \in 1..Len(raw) : raw[k] \notin Digits) => num = Null

(***************************************************************************)
(* Cell texts of the sheets the specifications draw from                    *)
(***************************************************************************)
CellQuantity ==
    <<"Q", "u", "a", "n", "t", "i", "t", "y", " ">>
CellOpenPrice ==
    <<"O", "p", "e", "n", " ", "P", "r", "i", "c", "e">>
CellCurrentPrice ==
    <<"C", "u", "r", "r", "e", "n", "t", " ", "P", "r", "i", "c", "e">>
CellUnrealizedGain ==
    <<" ", "u", "n", "r", "e", "a", "l", "i", "z", "e", "d", " ", "g", "a", "i", "n">>
CellDateTimeOpened ==
    <<"D", "a", "t", "e", " ", "&", " ", "T", "i", "m", "e", " ", "O", "p", "e", "n", "e", "d">>
CellAction ==
    <<"A", "c", "t", "i", "o", "n">>
CellTotalReceived ==
    <<"T", "o", "t", "a", "l", " ", "$", " ", "R", "e", "c", "e", "i", "v", "e", "d">>
CellTotalPaid ==
    <<" ", "t", "o", "t", "a", "l", " ", "$", " ", "p", "a", "i", "d">>
CellStatus ==
    <<"S", "t", "a", "t", "u", "s">>
CellRealizedLabel ==
    <<"R", "e", "a", "l", "i", "z", "e", "d", " ", "P", "/", "L", ":">>
CellRealizedUpper ==
    <<" ", "R", "E", "A", "L", "I", "Z", "E", "D", " ", "P", "/", "L", ":", " ">>
CellRealizedNoColon ==
    <<"R", "e", "a", "l", "i", "z", "e", "d", " ", "P", "/", "L">>
CellNote ==
    <<"n", "o", "t", "e">>
CellDateTimeClosed ==
    <<"D", "a", "t", "e", " ", "&", " ", "T", "i", "m", "e", " ", "C", "l", "o", "s", "e", "d">>
CellBuy ==
    <<"B", "u", "y">>
CellSell ==
    <<"S", "e", "l", "l">>
CellOpenedAt ==
    <<"1", "/", "2", " ", "9", ":", "3", "0">>
CellClosedAt ==
    <<" ", "3", "/", "4", " ">>

(***************************************************************************)
(* SpecHeader: findHeaderRow applied to a grid and a list of headers        *)
(***************************************************************************)
MaxHeaderRows == 2
MaxHeaderCols == 2

HeaderCells == {<<>>, CellQuantity, CellOpenPrice, CellDateTimeOpened, CellAction}

RequiredLists ==
    { <<>>,
      <<CellQuantity, StrOpenPrice>>,
      <<StrDateTime>>,
      <<StrOpenPrice, StrDateTime>>,
      <<StrAction, StrDateTime, StrAction>> }

HeaderInit ==
    /\ pc = "call"
    /\ grid \in SeqsUpTo(SeqsUpTo(HeaderCells, MaxHeaderCols), MaxHeaderRows)
    /\ required \in RequiredLists
    /\ header = Null
    /\ text = Idle /\ values = Idle
    /\ i = ScanInit.i /\ cur = Idle /\ row = Idle /\ rows = Idle /\ inQuotes = FALSE
    /\ raw = Idle /\ num = Null
    /\ initialCapital = Zero /\ realizedFromLabel = Null
    /\ open = Idle /\ journal = Idle /\ stats = Idle

FindHeaderRowCall ==
    /\ pc = "call"
    /\ header' = findHeaderRow(grid, required)
    /\ pc' = "done"
    /\ UNCHANGED <<text, scanVars, values, grid, numVars, required, statsVars>>

HeaderNext == FindHeaderRowCall

SpecHeader == HeaderInit /\ [][HeaderNext]_vars

(***************************************************************************)
(* Claims about findHeaderRow (SpecHeader)                                  *)
(***************************************************************************)
\* Column c of the normalized row resolves the normalized header h.
ColumnResolves(nrow, h, c) ==
    /\ c \in 1..Len(nrow)
    /\ nrow[c] = h \/ (IsDateTime(h) /\ IsDateTime(nrow[c]))

\* Every required header resolves to some column of row r.
RowResolvesAll(g, req, r) ==
    \A k \in 1..Len(req) :
        \E c \in 1..Len(g[r]) : ColumnResolves(NormalizeAll(g[r]), normalize(req[k]), c)

\* C7: findHeaderRow returns the lowest-index row in which every required
\* header resolves to a column, with a resolving column for each required
\* header, and none only when no row resolves all required headers.
C7_FirstResolvingRow ==
    pc = "done" =>
        IF \E r \in 1..Len(grid) : RowResolvesAll(grid, required, r)
        THEN /\ header # Null
             /\ RowResolvesAll(grid, required, header.rowIndex)
             /\ \A r \in 1..(header.rowIndex - 1) : ~RowResolvesAll(grid, required, r)
             /\ \A k \in 1..Len(required) :
                   /\ normalize(required[k]) \in DOMAIN header.colIndexByHeader
                   /\ ColumnResolves(NormalizeAll(grid[header.rowIndex]),
                                     normalize(required[k]),
                                     header.colIndexByHeader[normalize(required[k])])
        ELSE header = Null

\* The same statement for lists of pairwise distinct required headers.
C7_DistinctHeaders ==
    Cardinality({normalize(required[k]) : k \in 1..Len(required)}) = Len(required)
        => C7_FirstResolvingRow

N0 == <<"0">>
N3 == <<"3">>
N5 == <<"5">>
N7 == <<"7">>
N10 == <<"1", "0">>
N20 == <<"2", "0">>
N400 == <<"4", "0", "0">>
N1000 == <<"1", "0", "0", "0">>
N2500 == <<"2", "5", "0", "0">>
NMinus5 == <<"-", "5">>
NParen2 == <<"(", "2", ")">>
NOneAndHalf == <<"1", ".", "5">>
NMoney == <<"$", "1", ",", "2", "3", "4", ".", "5", "0">>
NMoneyUp == <<"$", "1", ",", "2", "3", "5", ".", "5", "0">>
NDollar == <<"$">>
NText == <<"x">>
Blank == <<>>

(***************************************************************************)
(* fetchSheetAsCsvViaSheetsApi: the values of a tab rendered as CSV text    *)
(***************************************************************************)
\* s.replaceAll('"', '""')
RECURSIVE DoubleQuotes(_)
DoubleQuotes(s) ==
    IF s = <<>> THEN <<>>
    ELSE (IF Head(s) = DQ THEN <<DQ, DQ>> ELSE <<Head(s)>>) \o DoubleQuotes(Tail(s))

HasChar(s, c) == \E k \in 1..Len(s) : s[k] = c

\* Lines 39-43.
CsvCell(s) ==
    IF HasChar(s, DQ) \/ HasChar(s, ",") \/ HasChar(s, LF)
    THEN <<DQ>> \o DoubleQuotes(s) \o <<DQ>>
    ELSE s

\* Lines 37-46.
SheetsApiCsv(v) ==
    Join([r \in 1..Len(v) |-> Join([c \in 1..Len(v[r]) |-> CsvCell(v[r][c])], <<",">>)],
         <<LF>>)

(***************************************************************************)
(* The tabs the specification Spec draws from                               *)
(***************************************************************************)
MaxDeepRows == 6
MaxWideRows == 2
MaxJournalRows == 3
MaxLabelRows == 2
MaxCombinedRows == 2

OpenHeaderRow == <<CellQuantity, CellOpenPrice, CellCurrentPrice, CellUnrealizedGain>>
OpenHeaderRowShuffled ==
    <<CellUnrealizedGain, CellNote, CellQuantity, CellCurrentPrice, CellOpenPrice>>

\* A data row <<quantity, open price, current price, unrealized gain>> laid
\* out under the shuffled header.
Shuffled(r) == <<r[4], CellNote, r[1], r[3], r[2]>>

DeepRows == { <<Blank, Blank, Blank, Blank>>,
              <<N10, N5, N7, Blank>>,
              <<NMinus5, Blank, Blank, N20>> }

WideRows == { <<Blank, Blank, Blank, Blank>>,
              <<N10, N5, N7, Blank>>,
              <<NMinus5, Blank, Blank, N20>>,
              <<Blank, N5, N7, Blank>>,
              <<N10, N5, Blank, Blank>>,
              <<N10, N5, N7, NParen2>>,
              <<NOneAndHalf, NMoney, NMoneyUp, Blank>>,
              <<NText, Blank, Blank, Blank>>,
              <<Blank, Blank, Blank, NDollar>>,
              <<N0, N5, N7, Blank>> }

DeepTabs == {<<OpenHeaderRow>> \o t : t \in SeqsUpTo(DeepRows, MaxDeepRows)}

WideTabs ==
    {<<OpenHeaderRow>> \o t : t \in SeqsUpTo(WideRows \cup {<<N10>>}, MaxWideRows)}
    \cup {<< <<CellNote>>, OpenHeaderRowShuffled >> \o [k \in 1..Len(t) |-> Shuffled(t[k])] :
            t \in SeqsUpTo(WideRows, MaxWideRows)}

JournalRows == { <<CellTotalReceived, CellTotalPaid>>,
                 <<CellTotalReceived>>,
                 <<CellTotalPaid>>,
                 <<N1000, N400>>,
                 <<Blank, N3>>,
                 <<N7>>,
                 <<NText, NParen2>> }

JournalTabs == SeqsUpTo(JournalRows, MaxJournalRows)

LabelRows == { <<CellRealizedLabel, N2500>>,
               <<CellRealizedUpper, NParen2>>,
               <<CellRealizedLabel, N0>>,
               <<CellRealizedLabel>>,
               <<CellRealizedLabel, Blank>>,
               <<CellRealizedLabel, NText>>,
               <<CellNote, CellRealizedLabel, N7, N3>>,
               <<CellRealizedNoColon, N3>> }

SheetTail == << OpenHeaderRow, <<N10, N5, N7, Blank>>, <<NMinus5, Blank, Blank, N20>>,
                <<CellTotalReceived, CellTotalPaid>>, <<N1000, N400>> >>

LabelTabs == {t \o tail : t \in SeqsUpTo(LabelRows, MaxLabelRows), tail \in {<<>>, SheetTail}}

\* The two-section journal sharing one header row, with its status column.
CombinedHeaderRow ==
    <<CellAction, CellDateTimeOpened, CellTotalReceived, CellStatus,
      CellAction, CellDateTimeClosed, CellTotalPaid>>

CombinedRows == { <<CellBuy, CellOpenedAt, N1000, Blank, Blank, Blank, Blank>>,
                  <<Blank, Blank, Blank, Blank, CellSell, CellClosedAt, N400>>,
                  <<CellBuy, CellClosedAt, N1000, Blank, CellSell, CellOpenedAt, N400>>,
                  <<Blank, Blank, Blank, Blank, Blank, Blank, Blank>>,
                  <<Blank, Blank, N0, Blank, Blank, Blank, N0>>,
                  <<CellBuy, CellOpenedAt, NText, Blank, Blank, Blank, Blank>> }

\* A row of the journal laid out without the status column.
WithoutStatus(r) == <<r[1], r[2], r[3], r[5], r[6], r[7]>>

CombinedTabs ==
    {<<CombinedHeaderRow>> \o t : t \in SeqsUpTo(CombinedRows, MaxCombinedRows)}
    \cup {[k \in 1..Len(t) + 1 |-> WithoutStatus((<<CombinedHeaderRow>> \o t)[k])] :
            t \in SeqsUpTo(CombinedRows, MaxCombinedRows)}

\* The tabs computed with every supplied capital.
CapitalTabs == {<<>>, SheetTail, << <<CellRealizedLabel, N2500>> >> \o SheetTail}

Capitals == {IntNum(10000), IntNum(1), Dec(25, 1), Zero, IntNum(-1), NaN, Infinity, NegInfinity}

(***************************************************************************)
(* Spec: one tab fetched through the Sheets API and turned into a stats     *)
(* record by computePlayerStatsFromSheetCSV, one statement per step         *)
(***************************************************************************)
Init ==
    /\ pc = "fetch"
    /\ \/ /\ values \in DeepTabs \cup WideTabs \cup JournalTabs \cup LabelTabs \cup CombinedTabs
          /\ initialCapital = IntNum(10000)
       \/ /\ values \in CapitalTabs
          /\ initialCapital \in Capitals
    /\ text = Idle /\ grid = Idle
    /\ i = ScanInit.i /\ cur = Idle /\ row = Idle /\ rows = Idle /\ inQuotes = FALSE
    /\ raw = Idle /\ num = Null
    /\ required = Idle /\ header = Null
    /\ realizedFromLabel = Null
    /\ open = NoPositions /\ journal = NoJournal /\ stats = Idle

\* route.ts line 65: csvText = await fetchSheetAsCsvViaSheetsApi(...)
Fetch ==
    /\ pc = "fetch"
    /\ text' = SheetsApiCsv(values)
    /\ pc' = "parse"
    /\ UNCHANGED <<scanVars, values, grid, numVars, headerVars, statsVars>>

\* Line 216.
Parse ==
    /\ pc = "parse"
    /\ grid' = parseCSV(text)
    /\ pc' = "label"
    /\ UNCHANGED <<text, scanVars, values, numVars, headerVars, statsVars>>

\* Line 219.
LocateRealized ==
    /\ pc = "label"
    /\ realizedFromLabel' = findCellAdjacentToLabel(grid, StrRealizedPL)
    /\ pc' = "positions"
    /\ UNCHANGED <<text, scanVars, values, grid, numVars, headerVars,
                   initialCapital, open, journal, stats>>

\* Line 220.
ExtractPositions ==
    /\ pc = "positions"
    /\ open' = parseOpenPositions(grid)
    /\ pc' = "journal"
    /\ UNCHANGED <<text, scanVars, values, grid, numVars, headerVars,
                   initialCapital, realizedFromLabel, journal, stats>>

\* Line 221.
ExtractJournal ==
    /\ pc = "journal"
    /\ journal' = parseJournalTotals(grid)
    /\ pc' = "aggregate"
    /\ UNCHANGED <<text, scanVars, values, grid, numVars, headerVars,
                   initialCapital, realizedFromLabel, open, stats>>

\* Lines 223-244.
Aggregate ==
    /\ pc = "aggregate"
    /\ stats' = StatsOf(initialCapital, realizedFromLabel, open, journal)
    /\ pc' = "done"
    /\ UNCHANGED <<text, scanVars, values, grid, numVars, headerVars,
                   initialCapital, realizedFromLabel, open, journal>>

Next == Fetch \/ Parse \/ LocateRealized \/ ExtractPositions \/ ExtractJournal \/ Aggregate

Spec == Init /\ [][Next]_vars

(***************************************************************************)
(* Claims about computePlayerStatsFromSheetCSV and the extractors (Spec)    *)
(***************************************************************************)
CellsOf(g) == {p \in (1..Len(g)) \X (1..20) : p[2] <= Len(g[p[1]])}

RowMajorFirst(P) ==
    CHOOSE p \in P : \A q \in P : p[1] < q[1] \/ (p[1] = q[1] /\ p[2] <= q[2])

\* The cells equal to 'Realized P/L:' after trimming, whatever their case.
LabelCells(g) ==
    {p \in CellsOf(g) : ToLowerCase(Trim(g[p[1]][p[2]])) = ToLowerCase(StrRealizedPL)}

\* The number right of the first label cell; Null when there is no label
\* cell, no cell to its right, or no number in it.
LabeledValue(g) ==
    IF LabelCells(g) = {} THEN Null
    ELSE LET p == RowMajorFirst(LabelCells(g))
         IN  parseNumber(At(g[p[1]], p[2] + 1))

\* C1: realizedPL is the number right of the first 'Realized P/L:' cell when
\* that cell normalizes to a number, and creditsTotal - debitsTotal in every
\* other case.
C1_RealizedPL ==
    pc = "done" =>
        IF LabeledValue(grid) # Null
        THEN stats.realizedPL = LabeledValue(grid)
        ELSE stats.realizedPL = Sub(stats.details.creditsTotal, stats.details.debitsTotal)

\* C1 witness: the first label cell has an unparseable cell to its right, a
\* later label cell has a number, and realizedPL is the journal's 1000 - 400.
C1_Witness ==
    /\ pc = "done"
    /\ Cardinality(LabelCells(grid)) = 2
    /\ LabeledValue(grid) = Null
    /\ \E p \in LabelCells(grid) : parseNumber(At(grid[p[1]], p[2] + 1)) # Null
    /\ stats.details.creditsTotal = IntNum(1000)
    /\ stats.details.debitsTotal = IntNum(400)
    /\ stats.realizedPL = IntNum(600)

\* The capital the record is computed with: the supplied one if it is a
\* finite number greater than 0, 10000 otherwise.
EffectiveCapital ==
    IF DOMAIN initialCapital = {"m", "e"} /\ initialCapital.m > 0
    THEN initialCapital
    ELSE IntNum(10000)

\* C2: totalPL = realizedPL + unrealizedPL, equity = C + totalPL and
\* returnPct * C = totalPL for the effective capital C.
C2_Aggregates ==
    pc = "done" =>
        /\ stats.totalPL = Add(stats.realizedPL, stats.unrealizedPL)
        /\ stats.equity = Add(EffectiveCapital, stats.totalPL)
        /\ stats.returnPct.den # Zero
        /\ Mul(stats.returnPct.num, EffectiveCapital)
              = Mul(stats.totalPL, stats.returnPct.den)

\* C2 witness: a record with a non-zero totalPL was computed for a supplied
\* capital of 0, with the default capital 10000.
C2_Witness ==
    /\ pc = "done"
    /\ initialCapital = Zero
    /\ stats.totalPL = IntNum(2540)
    /\ stats.equity = IntNum(12540)
    /\ stats.returnPct = [num |-> IntNum(2540), den |-> IntNum(10000)]

\* The open-positions header cells, as the sheet is read.
OpenHeaderNames == {StrQuantity, StrOpenPrice, StrCurrentPrice, StrUnrealizedGain}

HasCell(g, r, h) == \E c \in 1..Len(g[r]) : ToLowerCase(Trim(g[r][c])) = h

\* The rows holding all four open-positions headers.
OpenHeaderRows(g) == {r \in 1..Len(g) : \A h \in OpenHeaderNames : HasCell(g, r, h)}

FirstOpenHeaderRow(g) == CHOOSE r \in OpenHeaderRows(g) : \A q \in OpenHeaderRows(g) : r <= q

\* The leftmost column of row r holding header h.
ColumnOf(g, r, h) ==
    CHOOSE c \in 1..Len(g[r]) :
        /\ ToLowerCase(Trim(g[r][c])) = h
        /\ \A j \in 1..(c - 1) : ToLowerCase(Trim(g[r][j])) # h

\* The column of each open-positions header in header row hr.
OpenColumns(g, hr) ==
    [q |-> ColumnOf(g, hr, StrQuantity), o |-> ColumnOf(g, hr, StrOpenPrice),
     cp |-> ColumnOf(g, hr, StrCurrentPrice), u |-> ColumnOf(g, hr, StrUnrealizedGain)]

\* The four numbers of a row of the open-positions table.
OpenCells(r, cols) ==
    [q |-> parseNumber(At(r, cols.q)), o |-> parseNumber(At(r, cols.o)),
     cp |-> parseNumber(At(r, cols.cp)), u |-> parseNumber(At(r, cols.u))]

\* The four numbers of rows 1..n, row by row.
RECURSIVE CellsOfRows(_, _, _)
CellsOfRows(g, cols, n) ==
    IF n = 0 THEN <<>> ELSE Append(CellsOfRows(g, cols, n - 1), OpenCells(g[n], cols))

\* The grid read as an open-positions table: the four numbers of every row.
OpenTable(g) == CellsOfRows(g, OpenColumns(g, FirstOpenHeaderRow(g)), Len(g))

AllAbsent(cells) ==
    cells.q = Null /\ cells.o = Null /\ cells.cp = Null /\ cells.u = Null

\* The unrealized gain of a data row.
GainOf(cells) ==
    LET q == cells.q
        o == cells.o
        cp == cells.cp
        u == cells.u
    IN  IF u # Null THEN u
        ELSE IF o # Null /\ cp # Null THEN Mul(IF q = Null THEN Zero ELSE q, Sub(cp, o))
        ELSE Zero

RECURSIVE SumOfGains(_, _)
SumOfGains(table, R) ==
    IF R = {} THEN Zero
    ELSE LET r == CHOOSE x \in R : TRUE
         IN  Add(GainOf(table[r]), SumOfGains(table, R \ {r}))

\* The data rows read: the rows below the header that are not all-absent and
\* follow no all-absent row lying more than 2 rows below the first row under
\* the header.
DataRowsRead(table, start) ==
    {r \in start..Len(table) :
        /\ ~AllAbsent(table[r])
        /\ \A b \in start..(r - 1) : AllAbsent(table[b]) => b <= start + 2}

\* C8: unrealizedTotal is the sum of the gains of the data rows read, the
\* gain being the explicit cell when it normalizes to a number, otherwise
\* quantity * (currentPrice - openPrice) when both prices are numbers
\* (quantity 0 when absent), otherwise 0; positions has one record per such
\* row and unrealizedPL of the stats record is this total.
C8_UnrealizedTotal ==
    pc = "done" =>
        IF OpenHeaderRows(grid) = {}
        THEN open = NoPositions /\ stats.unrealizedPL = Zero
        ELSE LET table == OpenTable(grid)
                 read == DataRowsRead(table, FirstOpenHeaderRow(grid) + 1)
                 total == SumOfGains(table, read)
             IN  /\ open.unrealizedTotal = total
                 /\ Len(open.positions) = Cardinality(read)
                 /\ stats.unrealizedPL = total

\* C8 witness: the two rows (10, 5, 7, absent) and (-5, absent, absent, 20)
\* below the header have been read, for a total of 10 * (7 - 5) + 20 = 40.
C8_Witness ==
    /\ pc = "done"
    /\ grid = <<OpenHeaderRow, <<N10, N5, N7, Blank>>, <<NMinus5, Blank, Blank, N20>> >>
    /\ Len(open.positions) = 2
    /\ open.unrealizedTotal = IntNum(40)
    /\ stats.unrealizedPL = IntNum(40)

\* The rows below the header row.
Below(g, r) == (r + 1)..Len(g)

RECURSIVE SortedRows(_)
SortedRows(R) ==
    IF R = {} THEN <<>>
    ELSE LET r == CHOOSE x \in R : \A y \in R : x <= y
         IN  <<r>> \o SortedRows(R \ {r})

\* The table as C10 states it: at most 2 leading all-absent rows, and the
\* first all-absent row after a data row ends it.
ContiguousRows(table, start) ==
    LET data == {r \in start..Len(table) : ~AllAbsent(table[r])}
        first == CHOOSE r \in data : \A q \in data : r <= q
    IN  IF data = {} THEN {}
        ELSE IF first > start + 2 THEN {}
        ELSE {r \in data : \A b \in first..r : ~AllAbsent(table[b])}

\* C10 as stated: only the rows of the contiguous table add a position or
\* change unrealizedTotal.
C10_ContiguousTable ==
    (pc = "done" /\ OpenHeaderRows(grid) # {}) =>
        LET table == OpenTable(grid)
            rs == ContiguousRows(table, FirstOpenHeaderRow(grid) + 1)
        IN  /\ Len(open.positions) = Cardinality(rs)
            /\ open.unrealizedTotal = SumOfGains(table, rs)

\* The row that ends the table: the first all-absent row more than 2 rows
\* below the first row under the header; one past the grid when there is none.
StopRow(table, start, len) ==
    LET stops == {b \in (start + 3)..Len(table) : AllAbsent(table[b])}
    IN  IF stops = {} THEN len + 1 ELSE CHOOSE b \in stops : \A q \in stops : b <= q

\* C10 (amended): an all-absent row is skipped when it is one of the first 3
\* rows below the header, wherever the data rows are, and the first
\* all-absent row below those 3 ends the table; the positions are the
\* not-all-absent rows before that row, in order, and no row from that row on
\* adds a position or changes unrealizedTotal.
C10_TableEnd ==
    (pc = "done" /\ OpenHeaderRows(grid) # {}) =>
        LET table == OpenTable(grid)
            start == FirstOpenHeaderRow(grid) + 1
            stop == StopRow(table, start, Len(grid))
            before == {r \in start..(stop - 1) : ~AllAbsent(table[r])}
            read == SortedRows(before)
        IN  /\ Len(open.positions) = Len(read)
            /\ \A k \in 1..Len(read) :
                  open.positions[k] =
                      [quantity |-> OrElse(table[read[k]].q, Zero),
                       openPrice |-> table[read[k]].o,
                       currentPrice |-> table[read[k]].cp,
                       unrealizedGain |-> GainOf(table[read[k]])]
            /\ open.unrealizedTotal = SumOfGains(table, before)

\* C10 witness: three leading all-absent rows were skipped, the data row
\* below them was read, and the data row below the next all-absent row was not.
C10_Witness ==
    /\ pc = "done"
    /\ grid = <<OpenHeaderRow,
                <<Blank, Blank, Blank, Blank>>, <<Blank, Blank, Blank, Blank>>,
                <<Blank, Blank, Blank, Blank>>, <<N10, N5, N7, Blank>>,
                <<Blank, Blank, Blank, Blank>>, <<NMinus5, Blank, Blank, N20>> >>
    /\ Len(open.positions) = 1
    /\ open.unrealizedTotal = IntNum(20)

\* The first row holding header h, 0 when no row holds it.
HeaderRowOf(g, h) ==
    LET R == {r \in 1..Len(g) : HasCell(g, r, h)}
    IN  IF R = {} THEN 0 ELSE CHOOSE r \in R : \A q \in R : r <= q

RECURSIVE SumOfColumn(_, _, _)
SumOfColumn(g, c, R) ==
    IF R = {} THEN Zero
    ELSE LET r == CHOOSE x \in R : TRUE
         IN  Add(OrElse(parseNumber(At(g[r], c)), Zero), SumOfColumn(g, c, R \ {r}))

\* The sum of the numbers in the column of header h from the row below that
\* header to the end of the grid; 0 when the header is nowhere.
SumBelowHeader(g, h) ==
    LET r == HeaderRowOf(g, h)
    IN  IF r = 0 THEN Zero ELSE SumOfColumn(g, ColumnOf(g, r, h), Below(g, r))

HasJournalHeader(g) ==
    HeaderRowOf(g, StrTotalReceived) # 0 \/ HeaderRowOf(g, StrTotalPaid) # 0

\* C9: without a combined header row, creditsTotal is the sum of the numbers
\* below the 'total $ received' header and debitsTotal the sum of the numbers
\* below the 'total $ paid' header, on whichever rows the two headers sit.
C9_FallbackTotals ==
    (pc = "done" /\ findHeaderRow(grid, JournalHeaders) = Null /\ HasJournalHeader(grid)) =>
        /\ journal.creditsTotal = SumBelowHeader(grid, StrTotalReceived)
        /\ journal.debitsTotal = SumBelowHeader(grid, StrTotalPaid)

\* The same statement for the grids in which no header sits below the first
\* row that holds one.
C9_HeadersOnOneRow ==
    (\A r \in 1..Len(grid) :
        (HasCell(grid, r, StrTotalReceived) \/ HasCell(grid, r, StrTotalPaid))
            => r = HeaderRowOf(grid, IF HeaderRowOf(grid, StrTotalReceived) # 0
                                     THEN StrTotalReceived ELSE StrTotalPaid)
               /\ (HeaderRowOf(grid, StrTotalReceived) = 0
                   \/ HeaderRowOf(grid, StrTotalPaid) = 0
                   \/ HeaderRowOf(grid, StrTotalReceived) = HeaderRowOf(grid, StrTotalPaid)))
        => C9_FallbackTotals

\* The rows holding two 'action' cells, two cells containing both 'date' and
\* 'time', a 'total $ received' cell and a 'total $ paid' cell.
CombinedHeaderRows(g) ==
    {r \in 1..Len(g) :
        /\ Cardinality({c \in 1..Len(g[r]) : ToLowerCase(Trim(g[r][c])) = StrAction}) >= 2
        /\ Cardinality({c \in 1..Len(g[r]) : IsDateTime(ToLowerCase(Trim(g[r][c])))}) >= 2
        /\ HasCell(g, r, StrTotalReceived)
        /\ HasCell(g, r, StrTotalPaid)}

\* The rightmost column of row hr whose header contains 'date' and 'time'.
RightmostDateColumn(g, hr) ==
    LET C == {c \in 1..Len(g[hr]) : IsDateTime(ToLowerCase(Trim(g[hr][c])))}
    IN  CHOOSE c \in C : \A d \in C : d <= c

\* The trimmed text of the last non-blank cell of column c below row hr, top
\* to bottom; undefined when every such cell is blank.
LastTextBelow(g, hr, c) ==
    LET R == {r \in Below(g, hr) : Trim(Coalesce(At(g[r], c), <<>>)) # <<>>}
    IN  IF R = {} THEN Undefined
        ELSE Trim(g[CHOOSE r \in R : \A q \in R : q <= r][c])

\* The rows below row hr that have a cell neither empty nor '0' and whose
\* received or paid cell is a number.
TradeRows(g, hr) ==
    {r \in Below(g, hr) :
        /\ \E c \in 1..Len(g[r]) :
              ToLowerCase(Trim(g[r][c])) # <<>> /\ ToLowerCase(Trim(g[r][c])) # StrZero
        /\ \/ parseNumber(At(g[r], ColumnOf(g, hr, StrTotalReceived))) # Null
           \/ parseNumber(At(g[r], ColumnOf(g, hr, StrTotalPaid))) # Null}

\* C11: on a grid with a single combined journal header row, with or without
\* a status column, lastActivity is the last non-blank cell of the rightmost
\* date-and-time column below the header, and trades is the number of rows
\* below the header that have a cell neither empty nor '0' and a received or
\* paid cell that is a number.
C11_PrimaryPath ==
    (pc = "done" /\ Cardinality(CombinedHeaderRows(grid)) = 1) =>
        LET hr == CHOOSE r \in CombinedHeaderRows(grid) : TRUE
        IN  /\ journal.lastActivity = LastTextBelow(grid, hr, RightmostDateColumn(grid, hr))
            /\ journal.trades = Cardinality(TradeRows(grid, hr))

\* On every tab the search for the combined journal header row finds nothing
\* and no last activity is reported.
C11_HeaderRowNeverFound ==
    pc = "done" => findHeaderRow(grid, JournalHeaders) = Null /\ journal.lastActivity = Undefined

\* The row the fallback locates: the first row holding either journal header.
LocatedHeaderRow(g) ==
    LET R == {r \in 1..Len(g) :
                HasCell(g, r, StrTotalReceived) \/ HasCell(g, r, StrTotalPaid)}
    IN  CHOOSE r \in R : \A q \in R : r <= q

\* The cell of row r in the column that header h has on row hr; undefined
\* when row hr has no such header or row r is too short.
CellUnder(g, hr, h, r) ==
    IF HasCell(g, hr, h) THEN At(g[r], ColumnOf(g, hr, h)) ELSE Undefined

NonBlank(cell) == Trim(Coalesce(cell, <<>>)) # <<>>

\* The rows below the located header row whose received cell or paid cell is
\* non-blank after trimming.
ReceivedOrPaidRows(g) ==
    LET hr == LocatedHeaderRow(g)
    IN  {r \in Below(g, hr) :
            \/ NonBlank(CellUnder(g, hr, StrTotalReceived, r))
            \/ NonBlank(CellUnder(g, hr, StrTotalPaid, r))}

\* The rows below the located header row whose received cell, or whose paid
\* cell when the row has no received cell at all, is non-blank after trimming.
FirstPresentCellRows(g) ==
    LET hr == LocatedHeaderRow(g)
    IN  {r \in Below(g, hr) :
            NonBlank(Coalesce(CellUnder(g, hr, StrTotalReceived, r),
                              CellUnder(g, hr, StrTotalPaid, r)))}

\* C12: on the fallback path trades is the number of rows below the located
\* header row whose received cell or paid cell is non-blank after trimming,
\* each row counted once; a row with an empty received cell and an amount in
\* its paid cell counts.
C12_FallbackTrades ==
    (pc = "done" /\ findHeaderRow(grid, JournalHeaders) = Null /\ HasJournalHeader(grid)) =>
        journal.trades = Cardinality(ReceivedOrPaidRows(grid))

\* The count that holds: a row counts by its received cell when it has one,
\* empty or not, and by its paid cell only when it has no received cell.
C12_FirstPresentCell ==
    (pc = "done" /\ findHeaderRow(grid, JournalHeaders) = Null /\ HasJournalHeader(grid)) =>
        journal.trades = Cardinality(FirstPresentCellRows(grid))

====
